---- MODULE Spec2Model ----
(***************************************************************************)
(* Model of the PR review assigner: the service layer                      *)
(* (internal/service) on top of the SQL repository (internal/repo) and    *)
(* the schema the repository runs against.                                 *)
(*                                                                         *)
(* Spec     : from the empty schema, every service operation runs to       *)
(*            completion as one step.                                      *)
(* SpecPool : the same operations, from two teams that hold four users.    *)
(* SpecFault, SpecPoolFault : as Spec and SpecPool, with requests in which *)
(*            a repository call returns an error.                          *)
(* SpecTwo  : CreatePR, MergePR and ReassignReviewer about two PR ids.     *)
(* SpecReassignFault, SpecPartial : ReassignReviewer, and the operations   *)
(*            of more than one write, with a failing repository call.      *)
(* SpecTeamSteps : CreateTeam run call by call, each call able to fail.    *)
(* SpecConc : two requests run concurrently, interleaved at the            *)
(*            granularity of single repository calls.                      *)
(* SpecConcActive : an assigning request and a request that changes        *)
(*            active flags, interleaved in the same way.                   *)
(***************************************************************************)
EXTENDS Integers, Sequences, FiniteSets, TLC

\* ------------------------------------------------------------------ bounds
\* the users CreateTeam requests name, in the order their records are listed
UserSeq   == <<"u1", "u2">>
\* the user ids requests name: "u3" and "u4" are unknown unless the initial
\* state holds them
UserIds   == {UserSeq[i] : i \in 1..Len(UserSeq)} \cup {"u3", "u4"}
TeamNames == {"t1", "t2"}
PRIds     == {"p1"}
Usernames == {"n1", "n2"}
Titles    == {"T1"}

\* longest member list handed to CreateTeam
MaxMembers == 2
\* ReassignReviewer is not started once this many assignment events exist
MaxEvents == 3

\* ------------------------------------------------------------------- state
VARIABLES
    users,              \* table users:        id -> [name, is_active]
    teams,              \* table teams:        the names; a team's serial id is stood for by its name
    team_members,       \* table team_members: set of <<team_id, user_id>>
    prs,                \* table prs:          id -> [title, author_id, status]
    pr_reviewers,       \* table pr_reviewers: set of <<pr_id, user_id>>
    assignment_events,  \* table assignment_events: <<pr_id, user_id>> -> number of rows
    ret,                \* what the last completed service call returned
    pc,                 \* SpecConc: per request, the next repository call
    loc                 \* SpecConc: per request, the locals of the running call

db   == <<users, teams, team_members, prs, pr_reviewers, assignment_events>>
vars == <<users, teams, team_members, prs, pr_reviewers, assignment_events, ret, pc, loc>>

Procs == {1, 2}

\* ------------------------------------------------------------ plain helpers
Min(a, b) == IF a < b THEN a ELSE b

Range(s) == {s[i] : i \in 1..Len(s)}

\* all orders in which the rows of a result set can come back
Perms(S) == {s \in [1..Cardinality(S) -> S] : Range(s) = S}

SeqsUpTo(S, n) == UNION {[1..k -> S] : k \in 0..n}

Injective(s) == \A i, j \in 1..Len(s) : s[i] = s[j] => i = j

RECURSIVE SumOver(_, _)
SumOver(f, D) ==
    IF D = {} THEN 0
    ELSE LET x == CHOOSE y \in D : TRUE IN f[x] + SumOver(f, D \ {x})

\* ------------------------------------------------------------ result values
NilPR   == [ID |-> "", Title |-> "", AuthorID |-> "", Status |-> "", Reviewers |-> <<>>]
NilUser == [Name |-> "", IsActive |-> FALSE]

\* op: the service method, at: the line of the return statement taken,
\* err, pr, newID, user: the values returned
Result(op, err, at, pr, newID, user) ==
    [op |-> op, err |-> err, at |-> at, pr |-> pr, newID |-> newID, user |-> user]

NoResult == Result("", "nil", 0, NilPR, "", NilUser)

\* the locals of a running call: its arguments (userID is the author of
\* CreatePR, the old reviewer of ReassignReviewer, the user of SetUserActive;
\* members is the list of CreateTeam and i the record its loop is at) and
\* what it has read so far
NoLocals ==
    [prID |-> "", prName |-> "", userID |-> "", pr |-> NilPR, teamName |-> "",
     reviewers |-> <<>>, i |-> 0, newReviewer |-> "", active |-> FALSE, user |-> NilUser,
     members |-> <<>>]

TeamMember ==
    [UserID : {UserSeq[i] : i \in 1..Len(UserSeq)}, Username : Usernames, IsActive : BOOLEAN]

\* The member lists CreateTeam is called with: up to MaxMembers records, each
\* user named at most once. The records of a list are applied one after the
\* other and records of different users do not touch the same rows, so the
\* lists are taken in one order of the users, which also means that no list
\* is longer than UserSeq.
Pos(u) == CHOOSE i \in 1..Len(UserSeq) : UserSeq[i] = u

MemberLists ==
    {ms \in SeqsUpTo(TeamMember, Min(MaxMembers, Len(UserSeq))) :
        \A i, j \in 1..Len(ms) : i < j => Pos(ms[i].UserID) < Pos(ms[j].UserID)}

\* ------------------------------------------------------------- repository
\* Reads are state functions of the tables; writes take the table they
\* change and give the new table.

GetUserByID_ok(userID) == userID \in DOMAIN users

\* mutant: ON CONFLICT DO NOTHING, an existing user keeps its name
CreateUser_keep(us, userID, username) ==
    IF userID \in DOMAIN us
    THEN us
    ELSE [u \in DOMAIN us \cup {userID} |->
            IF u = userID THEN [name |-> username, is_active |-> TRUE] ELSE us[u]]

CreateUser(us, userID, username) ==
    IF userID \in DOMAIN us
    THEN [us EXCEPT ![userID].name = username]
    ELSE [u \in DOMAIN us \cup {userID} |->
            IF u = userID THEN [name |-> username, is_active |-> TRUE] ELSE us[u]]

\* mutant: the UPDATE changes no row
SetUserActive_repo_none(us, userID, active) == us

SetUserActive_repo(us, userID, active) ==
    [u \in DOMAIN us |-> IF u = userID THEN [us[u] EXCEPT !.is_active = active] ELSE us[u]]

\* mutant: the count is never positive
TeamExists_never(name) == FALSE

TeamExists(name) == name \in teams

CreateTeam_repo(ts, name) == ts \cup {name}

\* the id RETURNING id gives for the new row
CreateTeam_id(name) == name

\* mutant: the INSERT adds no row
AddMember_none(tm, teamID, userID) == tm

AddMember(tm, teamID, userID) == tm \cup {<<teamID, userID>>}

\* mutant: the SELECT is taken to find a row for every name
GetTeamByName_ok_any(name) == TRUE

GetTeamByName_ok(name) == name \in teams

GetTeamByName(name) == [ID |-> name, Name |-> name]

GetTeamMembers(teamName) ==
    {u \in DOMAIN users : teamName \in teams /\ <<GetTeamByName(teamName).ID, u>> \in team_members}

\* mutant: the is_active condition is missing
GetActiveTeamMembersExcept_any(teamName, excludeUserID) ==
    {u \in DOMAIN users :
        /\ teamName \in teams
        /\ <<GetTeamByName(teamName).ID, u>> \in team_members
        /\ u # excludeUserID}

GetActiveTeamMembersExcept(teamName, excludeUserID) ==
    {u \in DOMAIN users :
        /\ teamName \in teams
        /\ <<GetTeamByName(teamName).ID, u>> \in team_members
        /\ users[u].is_active
        /\ u # excludeUserID}

\* mutant: the count is never positive
PRExists_never(prID) == FALSE

PRExists(prID) == prID \in DOMAIN prs

\* mutant: prs has no primary key
CreatePRWithID_ok_nokey(prID, authorID) == authorID \in DOMAIN users

CreatePRWithID_ok(prID, authorID) == prID \notin DOMAIN prs /\ authorID \in DOMAIN users

\* mutant: the row is inserted as MERGED
CreatePRWithID_merged(ps, prID, title, authorID) ==
    [p \in DOMAIN ps \cup {prID} |->
        IF p = prID THEN [title |-> title, author_id |-> authorID, status |-> "MERGED"] ELSE ps[p]]

CreatePRWithID(ps, prID, title, authorID) ==
    [p \in DOMAIN ps \cup {prID} |->
        IF p = prID THEN [title |-> title, author_id |-> authorID, status |-> "OPEN"] ELSE ps[p]]

GetPRByID_ok(prID) == prID \in DOMAIN prs

\* mutant: the status column is not read
GetPRByID_nostatus(prID) ==
    [ID |-> prID, Title |-> prs[prID].title, AuthorID |-> prs[prID].author_id,
     Status |-> "", Reviewers |-> <<>>]

GetPRByID(prID) ==
    [ID |-> prID, Title |-> prs[prID].title, AuthorID |-> prs[prID].author_id,
     Status |-> prs[prID].status, Reviewers |-> <<>>]

AddReviewer(rv, prID, userID) == rv \cup {<<prID, userID>>}

\* mutant: the DELETE removes nothing
RemoveReviewer_kept(rv, prID, userID) == rv

RemoveReviewer(rv, prID, userID) == rv \ {<<prID, userID>>}

GetPRReviewers(prID) == {u \in DOMAIN users : <<prID, u>> \in pr_reviewers}

\* mutant: the WHERE clause is missing
SetPRStatus_all(ps, prID, status) ==
    [p \in DOMAIN ps |-> [ps[p] EXCEPT !.status = status]]

SetPRStatus(ps, prID, status) ==
    [p \in DOMAIN ps |-> IF p = prID THEN [ps[p] EXCEPT !.status = status] ELSE ps[p]]

\* the teams a user is in; the query returns one of them (LIMIT 1, no order)
GetUserTeam(userID) ==
    {t \in teams : <<GetTeamByName(t).ID, userID>> \in team_members}

\* mutant: the is_active condition is missing
GetRandomActiveTeamMember_any(teamName, excludeUserID) ==
    {u \in DOMAIN users :
        /\ teamName \in teams
        /\ <<GetTeamByName(teamName).ID, u>> \in team_members
        /\ u # excludeUserID}

\* mutant: the excluded user is not left out
GetRandomActiveTeamMember_self(teamName, excludeUserID) ==
    {u \in DOMAIN users :
        /\ teamName \in teams
        /\ <<GetTeamByName(teamName).ID, u>> \in team_members
        /\ users[u].is_active}

\* the rows ORDER BY RANDOM() LIMIT 1 chooses from
GetRandomActiveTeamMember(teamName, excludeUserID) ==
    {u \in DOMAIN users :
        /\ teamName \in teams
        /\ <<GetTeamByName(teamName).ID, u>> \in team_members
        /\ users[u].is_active
        /\ u # excludeUserID}

\* mutant: every user is deactivated
DeactivateTeamMembers_all(us, teamID) ==
    [u \in DOMAIN us |-> [us[u] EXCEPT !.is_active = FALSE]]

\* mutant: the INSERT adds no row
AddAssignmentEvent_none(ev, prID, userID) == ev

\* mutant: the PR keeps only its latest event, earlier rows of the PR are deleted
AddAssignmentEvent_latest(ev, prID, userID) ==
    [k \in DOMAIN ev |-> IF k = <<prID, userID>> THEN 1 ELSE IF k[1] = prID THEN 0 ELSE ev[k]]

AddAssignmentEvent(ev, prID, userID) ==
    [ev EXCEPT ![<<prID, userID>>] = @ + 1]

\* mutant: COUNT(DISTINCT pr_id), the PRs instead of the rows
GetAssignmentStats_distinct(userID) ==
    Cardinality({k \in DOMAIN assignment_events : k[2] = userID /\ assignment_events[k] > 0})

\* COUNT(*) of the group of user_id: the rows naming the user, of every PR
GetAssignmentStats(userID) ==
    LET rows == {k \in DOMAIN assignment_events : k[2] = userID}
    IN SumOver([k \in rows |-> assignment_events[k]], rows)

DeactivateTeamMembers(us, teamID) ==
    [u \in DOMAIN us |->
        IF <<teamID, u>> \in team_members THEN [us[u] EXCEPT !.is_active = FALSE] ELSE us[u]]

TotalEvents == SumOver(assignment_events, DOMAIN assignment_events)

\* ------------------------------------------------------------------ service
Init ==
    /\ users = <<>>
    /\ teams = {}
    /\ team_members = {}
    /\ prs = <<>>
    /\ pr_reviewers = {}
    /\ assignment_events = [k \in PRIds \X UserIds |-> 0]
    /\ ret = NoResult
    /\ pc = [p \in Procs |-> "idle"]
    /\ loc = [p \in Procs |-> NoLocals]

\* the member loop of CreateTeam: CreateUser, SetUserActive, AddMember per record
RECURSIVE MembersUsers(_, _)
MembersUsers(us, members) ==
    IF members = <<>> THEN us
    ELSE LET m == Head(members) IN
         MembersUsers(SetUserActive_repo(CreateUser(us, m.UserID, m.Username), m.UserID, m.IsActive),
                      Tail(members))

RECURSIVE MembersLinks(_, _, _)
MembersLinks(tm, teamID, members) ==
    IF members = <<>> THEN tm
    ELSE MembersLinks(AddMember(tm, teamID, Head(members).UserID), teamID, Tail(members))

\* CreateTeam from the INSERT of the team on, no store call failing
CreateTeam_members(teamName, members) ==
    /\ teams' = CreateTeam_repo(teams, teamName)
    /\ users' = MembersUsers(users, members)
    /\ team_members' = MembersLinks(team_members, CreateTeam_id(teamName), members)
    /\ ret' = Result("CreateTeam", "nil", 424, NilPR, "", NilUser)

\* The member list is an input of the call only; it is read after the
\* TeamExists check, so the failing branch does not depend on it.
CreateTeam(teamName) ==
    /\ IF TeamExists(teamName)
       THEN /\ ret' = Result("CreateTeam", "ErrTeamExists", 399, NilPR, "", NilUser)
            /\ UNCHANGED <<users, teams, team_members>>
       ELSE \E members \in MemberLists : CreateTeam_members(teamName, members)
    /\ UNCHANGED <<prs, pr_reviewers, assignment_events, pc, loc>>

\* candidates[:limit] after rand.Shuffle: the possible results
assignReviewers(teamName, excludeUserID) ==
    {SubSeq(c, 1, Min(2, Len(c))) : c \in Perms(GetActiveTeamMembersExcept(teamName, excludeUserID))}

\* the reviewer loop of CreatePR: AddReviewer, then AddAssignmentEvent
RECURSIVE BindReviewers(_, _, _)
BindReviewers(rv, prID, reviewers) ==
    IF reviewers = <<>> THEN rv
    ELSE BindReviewers(AddReviewer(rv, prID, Head(reviewers)), prID, Tail(reviewers))

RECURSIVE RecordReviewers(_, _, _)
RecordReviewers(ev, prID, reviewers) ==
    IF reviewers = <<>> THEN ev
    ELSE RecordReviewers(AddAssignmentEvent(ev, prID, Head(reviewers)), prID, Tail(reviewers))

\* mutant: the author is not looked up
authorKnown_skipped(authorID) == TRUE

\* the author check of CreatePR: GetUserByID gave no error
authorKnown(authorID) == GetUserByID_ok(authorID)

CreatePR(prID, prName, authorID) ==
    LET fail(err, at) ==
            /\ ret' = Result("CreatePR", err, at, NilPR, "", NilUser)
            /\ UNCHANGED <<prs, pr_reviewers, assignment_events>>
    IN
    /\ IF PRExists(prID) THEN fail("ErrPRExists", 469)
       ELSE IF ~authorKnown(authorID) THEN fail("ErrNotFound", 475)
       ELSE IF GetUserTeam(authorID) = {} THEN fail("author has no team", 481)
       ELSE IF ~CreatePRWithID_ok(prID, authorID) THEN fail("store error", 486)
       ELSE \E teamName \in GetUserTeam(authorID) :
            \E reviewers \in assignReviewers(teamName, authorID) :
            /\ prs' = CreatePRWithID(prs, prID, prName, authorID)
            /\ pr_reviewers' = BindReviewers(pr_reviewers, prID, reviewers)
            /\ assignment_events' = RecordReviewers(assignment_events, prID, reviewers)
            /\ ret' = Result("CreatePR", "nil", 511,
                             [ID |-> prID, Title |-> prName, AuthorID |-> authorID,
                              Status |-> "OPEN", Reviewers |-> reviewers], "", NilUser)
    /\ UNCHANGED <<users, teams, team_members, pc, loc>>

\* mutant: a repeated merge is refused
MergePR_merged_refused(pr, reviewers) ==
    Result("MergePR", "ErrPRMerged", 550, NilPR, "", NilUser)

\* the branch taken when the PR read is already MERGED
MergePR_merged(pr, reviewers) ==
    Result("MergePR", "nil", 550, [pr EXCEPT !.Reviewers = reviewers], "", NilUser)

\* mutant: a PR that is not found is answered as merged, with no error
MergePR_lenient(prID) ==
    /\ IF ~GetPRByID_ok(prID)
       THEN /\ ret' = Result("MergePR", "nil", 570,
                             [NilPR EXCEPT !.ID = prID, !.Status = "MERGED"], "", NilUser)
            /\ UNCHANGED prs
       ELSE LET pr == GetPRByID(prID) IN
            IF pr.Status = "MERGED"
            THEN \E reviewers \in Perms(GetPRReviewers(prID)) :
                 /\ ret' = MergePR_merged(pr, reviewers)
                 /\ UNCHANGED prs
            ELSE \E reviewers \in Perms(GetPRReviewers(prID)) :
                 /\ prs' = SetPRStatus(prs, prID, "MERGED")
                 /\ ret' = Result("MergePR", "nil", 570,
                                  [pr EXCEPT !.Status = "MERGED", !.Reviewers = reviewers],
                                  "", NilUser)
    /\ UNCHANGED <<users, teams, team_members, pr_reviewers, assignment_events, pc, loc>>

MergePR(prID) ==
    /\ IF ~GetPRByID_ok(prID)
       THEN /\ ret' = Result("MergePR", "ErrNotFound", 543, NilPR, "", NilUser)
            /\ UNCHANGED prs
       ELSE LET pr == GetPRByID(prID) IN
            IF pr.Status = "MERGED"
            THEN \E reviewers \in Perms(GetPRReviewers(prID)) :
                 /\ ret' = MergePR_merged(pr, reviewers)
                 /\ UNCHANGED prs
            ELSE \E reviewers \in Perms(GetPRReviewers(prID)) :
                 /\ prs' = SetPRStatus(prs, prID, "MERGED")
                 /\ ret' = Result("MergePR", "nil", 570,
                                  [pr EXCEPT !.Status = "MERGED", !.Reviewers = reviewers],
                                  "", NilUser)
    /\ UNCHANGED <<users, teams, team_members, pr_reviewers, assignment_events, pc, loc>>

\* mutant: the old reviewer is taken to be assigned
oldUserAssigned_always(reviewers, oldUserID) == TRUE

\* the loop of lines 591-597 over the rows GetPRReviewers returned
oldUserAssigned(reviewers, oldUserID) == oldUserID \in reviewers

ReassignReviewer(prID, oldUserID) ==
    LET fail(err, at) ==
            /\ ret' = Result("ReassignReviewer", err, at, NilPR, "", NilUser)
            /\ UNCHANGED <<pr_reviewers, assignment_events>>
    IN
    /\ TotalEvents < MaxEvents
    /\ UNCHANGED <<users, teams, team_members, prs, pc, loc>>
    /\ IF ~GetPRByID_ok(prID) THEN fail("ErrNotFound", 578)
       ELSE LET pr == GetPRByID(prID) IN
            IF pr.Status = "MERGED" THEN fail("ErrPRMerged", 582)
            ELSE IF ~oldUserAssigned(GetPRReviewers(prID), oldUserID) THEN fail("ErrNotAssigned", 600)
            ELSE IF GetUserTeam(oldUserID) = {} THEN fail("old reviewer has no team", 606)
            ELSE \E teamName \in GetUserTeam(oldUserID) :
                 IF GetRandomActiveTeamMember(teamName, oldUserID) = {}
                 THEN fail("ErrNoCandidate", 612)
                 ELSE \E newReviewer \in GetRandomActiveTeamMember(teamName, oldUserID) :
                      /\ pr_reviewers' = AddReviewer(RemoveReviewer(pr_reviewers, prID, oldUserID),
                                                    prID, newReviewer)
                      /\ assignment_events' = AddAssignmentEvent(assignment_events, prID, newReviewer)
                      /\ \E updatedReviewers \in Perms(GetPRReviewers(prID)') :
                            ret' = Result("ReassignReviewer", "nil", 638,
                                          [pr EXCEPT !.Reviewers = updatedReviewers],
                                          newReviewer, NilUser)

SetUserActive(userID, active) ==
    /\ IF ~GetUserByID_ok(userID)
       THEN /\ ret' = Result("SetUserActive", "ErrNotFound", 446, NilPR, "", NilUser)
            /\ UNCHANGED users
       ELSE /\ users' = SetUserActive_repo(users, userID, active)
            \* of the returned user the name and the flag are kept; its ID is the
            \* argument, and its TeamName (GetUserTeam, error dropped) is read by nothing
            /\ ret' = Result("SetUserActive", "nil", 459, NilPR, "",
                             [Name |-> users[userID].name, IsActive |-> active])
    /\ UNCHANGED <<teams, team_members, prs, pr_reviewers, assignment_events, pc, loc>>

\* mutant: the members' reviewer bindings are deleted with the deactivation
BulkDeactivateTeam_unbind(teamName, reassign) ==
    /\ IF ~GetTeamByName_ok(teamName)
       THEN /\ ret' = Result("BulkDeactivateTeam", "ErrNotFound", 675, NilPR, "", NilUser)
            /\ UNCHANGED <<users, pr_reviewers>>
       ELSE /\ users' = DeactivateTeamMembers(users, GetTeamByName(teamName).ID)
            /\ pr_reviewers' =
                 {b \in pr_reviewers : <<GetTeamByName(teamName).ID, b[2]>> \notin team_members}
            /\ ret' = Result("BulkDeactivateTeam", "nil", 683, NilPR, "", NilUser)
    /\ UNCHANGED <<teams, team_members, prs, assignment_events, pc, loc>>

\* mutant: with the flag set, the members are taken off the OPEN PRs they review
BulkDeactivateTeam_reassign(teamName, reassign) ==
    /\ IF ~GetTeamByName_ok(teamName)
       THEN /\ ret' = Result("BulkDeactivateTeam", "ErrNotFound", 675, NilPR, "", NilUser)
            /\ UNCHANGED <<users, pr_reviewers>>
       ELSE /\ users' = DeactivateTeamMembers(users, GetTeamByName(teamName).ID)
            /\ pr_reviewers' =
                 IF reassign
                 THEN {b \in pr_reviewers :
                          \/ <<GetTeamByName(teamName).ID, b[2]>> \notin team_members
                          \/ prs[b[1]].status # "OPEN"}
                 ELSE pr_reviewers
            /\ ret' = Result("BulkDeactivateTeam", "nil", 683, NilPR, "", NilUser)
    /\ UNCHANGED <<teams, team_members, prs, assignment_events, pc, loc>>

BulkDeactivateTeam(teamName, reassign) ==
    /\ IF ~GetTeamByName_ok(teamName)
       THEN /\ ret' = Result("BulkDeactivateTeam", "ErrNotFound", 675, NilPR, "", NilUser)
            /\ UNCHANGED users
       ELSE /\ users' = DeactivateTeamMembers(users, GetTeamByName(teamName).ID)
            /\ ret' = Result("BulkDeactivateTeam", "nil", 683, NilPR, "", NilUser)
    /\ UNCHANGED <<teams, team_members, prs, pr_reviewers, assignment_events, pc, loc>>

\* GetTeam reads only: what it returns in the current state. The member rows
\* come back in no stated order and are kept as a set.
GetTeam(teamName) ==
    IF ~GetTeamByName_ok(teamName)
    THEN [err |-> "ErrNotFound", team |-> "", members |-> {}]
    ELSE [err |-> "nil", team |-> GetTeamByName(teamName).Name,
          members |-> {[ID |-> u, Name |-> users[u].name, IsActive |-> users[u].is_active] :
                          u \in GetTeamMembers(teamName)}]

Next ==
    \/ \E t \in TeamNames : CreateTeam(t)
    \/ \E p \in PRIds, n \in Titles, a \in UserIds : CreatePR(p, n, a)
    \/ \E p \in PRIds : MergePR(p)
    \/ \E p \in PRIds, u \in UserIds : ReassignReviewer(p, u)
    \/ \E u \in UserIds, b \in BOOLEAN : SetUserActive(u, b)
    \/ \E t \in TeamNames, b \in BOOLEAN : BulkDeactivateTeam(t, b)

Spec == Init /\ [][Next]_vars

\* Both team names taken: "t1" holds every user id, "t2" the first two users,
\* each user active or not. It is what two CreateTeam calls leave; from there
\* the same operations as in Spec, of which CreateTeam is now always refused.
InitPool ==
    /\ teams = CreateTeam_repo(CreateTeam_repo({}, "t1"), "t2")
    /\ \E active \in [UserIds -> BOOLEAN] :
         users = [u \in UserIds |-> [name |-> "n1", is_active |-> active[u]]]
    /\ team_members = {<<CreateTeam_id("t1"), u>> : u \in UserIds}
                        \cup {<<CreateTeam_id("t2"), UserSeq[i]>> : i \in 1..2}
    /\ prs = <<>>
    /\ pr_reviewers = {}
    /\ assignment_events = [k \in PRIds \X UserIds |-> 0]
    /\ ret = NoResult
    /\ pc = [p \in Procs |-> "idle"]
    /\ loc = [p \in Procs |-> NoLocals]

SpecPool == InitPool /\ [][Next]_vars

\* GetStats reads only: the map under "assignment_stats" in the current state.
\* GROUP BY gives a row, and the map a key, only for a user id that has events.
GetStats ==
    [u \in {v \in UserIds : GetAssignmentStats(v) > 0} |-> GetAssignmentStats(u)]

\* ------------------------------------------------------ service, two PRs
\* One team of three users, each active or not, and requests about two PR
\* ids: CreatePR, MergePR and ReassignReviewer, each as one step.
PRIdsTwo == {"p1", "p2"}

InitTwo ==
    LET members == [i \in 1..3 |->
                      [UserID |-> <<"u1", "u2", "u3">>[i], Username |-> "n1", IsActive |-> TRUE]]
    IN
    /\ teams = CreateTeam_repo({}, "t1")
    /\ \E active \in [{"u1", "u2", "u3"} -> BOOLEAN] :
         users = [u \in DOMAIN MembersUsers(<<>>, members) |->
                    [MembersUsers(<<>>, members)[u] EXCEPT !.is_active = active[u]]]
    /\ team_members = MembersLinks({}, CreateTeam_id("t1"), members)
    /\ prs = <<>>
    /\ pr_reviewers = {}
    /\ assignment_events = [k \in PRIdsTwo \X UserIds |-> 0]
    /\ ret = NoResult
    /\ pc = [p \in Procs |-> "idle"]
    /\ loc = [p \in Procs |-> NoLocals]

NextTwo ==
    \/ \E p \in PRIdsTwo, n \in Titles, a \in UserIds : CreatePR(p, n, a)
    \/ \E p \in PRIdsTwo : MergePR(p)
    \/ \E p \in PRIdsTwo, u \in UserIds : ReassignReviewer(p, u)

SpecTwo == InitTwo /\ [][NextTwo]_vars

\* ------------------------------------------- service, a store call failing
\* A request in which a repository call that the request reaches returns an
\* error (the connection is lost, a statement times out).

\* CreateTeam: the failing call, and for the calls of the member loop the
\* record at which it fails
CreateTeamFaults ==
    {[call |-> c, k |-> 0] : c \in {"TeamExists", "CreateTeam"}}
    \cup {[call |-> c, k |-> k] : c \in {"CreateUser", "SetUserActive", "AddMember"},
                                  k \in 1..MaxMembers}

CreateTeam_faulty(teamName, f) ==
    LET fail(err, at) == ret' = Result("CreateTeam", err, at, NilPR, "", NilUser) IN
    /\ IF f.call = "TeamExists"
       THEN fail("store error", 396) /\ UNCHANGED <<users, teams, team_members>>
       ELSE /\ ~TeamExists(teamName)
            /\ IF f.call = "CreateTeam"
               THEN fail("store error", 404) /\ UNCHANGED <<users, teams, team_members>>
               ELSE \E members \in MemberLists :
                    /\ f.k <= Len(members)
                    /\ LET done == SubSeq(members, 1, f.k - 1)
                           m    == members[f.k]
                           us1  == MembersUsers(users, done)
                           us2  == IF f.call = "CreateUser" THEN us1
                                   ELSE CreateUser(us1, m.UserID, m.Username)
                           us3  == IF f.call \in {"CreateUser", "SetUserActive"} THEN us2
                                   ELSE SetUserActive_repo(us2, m.UserID, m.IsActive)
                       IN /\ teams' = CreateTeam_repo(teams, teamName)
                          /\ users' = us3
                          /\ team_members' =
                               MembersLinks(team_members, CreateTeam_id(teamName), done)
                          /\ fail("store error",
                                  CASE f.call = "CreateUser" -> 410
                                    [] f.call = "SetUserActive" -> 415
                                    [] f.call = "AddMember" -> 420)
    /\ UNCHANGED <<prs, pr_reviewers, assignment_events, pc, loc>>

\* CreatePR: the failing call, and for the calls of the reviewer loop the
\* rounds in which it fails
CreatePRFaults ==
    {[call |-> c, at |-> {}] :
        c \in {"PRExists", "GetUserByID", "GetUserTeam", "CreatePRWithID",
               "GetActiveTeamMembersExcept"}}
    \cup {[call |-> c, at |-> a] : c \in {"AddReviewer", "AddAssignmentEvent"},
                                  a \in {{1}, {2}, {1, 2}}}

\* the elements of s from position i on whose position is not in skip
RECURSIVE Without(_, _, _)
Without(s, skip, i) ==
    IF i > Len(s) THEN <<>>
    ELSE (IF i \in skip THEN <<>> ELSE <<s[i]>>) \o Without(s, skip, i + 1)

CreatePR_faulty(prID, prName, authorID, f) ==
    LET fail(err, at) ==
            /\ ret' = Result("CreatePR", err, at, NilPR, "", NilUser)
            /\ UNCHANGED <<prs, pr_reviewers, assignment_events>>
    IN
    /\ CASE f.call = "PRExists" -> fail("store error", 466)
         [] f.call = "GetUserByID" ->
              ~PRExists(prID) /\ fail("ErrNotFound", 475)
         [] f.call = "GetUserTeam" ->
              ~PRExists(prID) /\ authorKnown(authorID) /\ fail("author has no team", 481)
         [] f.call = "CreatePRWithID" ->
              /\ ~PRExists(prID) /\ authorKnown(authorID) /\ GetUserTeam(authorID) # {}
              /\ fail("store error", 486)
         [] OTHER ->
              /\ ~PRExists(prID) /\ authorKnown(authorID) /\ GetUserTeam(authorID) # {}
              /\ CreatePRWithID_ok(prID, authorID)
              /\ \E teamName \in GetUserTeam(authorID) :
                 \E reviewers \in (IF f.call = "GetActiveTeamMembersExcept" THEN {<<>>}
                                   ELSE assignReviewers(teamName, authorID)) :
                 /\ f.at \subseteq 1..Len(reviewers)
                 /\ LET bound    == IF f.call = "AddReviewer"
                                    THEN Without(reviewers, f.at, 1) ELSE reviewers
                        recorded == IF f.call = "AddAssignmentEvent"
                                    THEN Without(bound, f.at, 1) ELSE bound
                    IN /\ prs' = CreatePRWithID(prs, prID, prName, authorID)
                       /\ pr_reviewers' = BindReviewers(pr_reviewers, prID, bound)
                       /\ assignment_events' =
                            RecordReviewers(assignment_events, prID, recorded)
                       /\ ret' = Result("CreatePR", "nil", 511,
                                        [ID |-> prID, Title |-> prName, AuthorID |-> authorID,
                                         Status |-> "OPEN", Reviewers |-> reviewers],
                                        "", NilUser)
    /\ UNCHANGED <<users, teams, team_members, pc, loc>>

\* ReassignReviewer: the failing call
ReassignFaults ==
    {"GetPRByID", "GetPRReviewers", "GetUserTeam", "GetRandomActiveTeamMember",
     "RemoveReviewer", "AddReviewer", "AddAssignmentEvent", "GetPRReviewers_updated"}

ReassignReviewer_faulty(prID, oldUserID, f) ==
    LET fail(err, at) ==
            /\ ret' = Result("ReassignReviewer", err, at, NilPR, "", NilUser)
            /\ UNCHANGED <<pr_reviewers, assignment_events>>
        open     == GetPRByID_ok(prID) /\ GetPRByID(prID).Status # "MERGED"
        assigned == open /\ oldUserAssigned(GetPRReviewers(prID), oldUserID)
    IN
    /\ TotalEvents < MaxEvents
    /\ UNCHANGED <<users, teams, team_members, prs, pc, loc>>
    /\ CASE f = "GetPRByID" -> fail("ErrNotFound", 578)
         [] f = "GetPRReviewers" -> open /\ fail("store error", 588)
         [] f = "GetUserTeam" -> assigned /\ fail("old reviewer has no team", 606)
         [] f = "GetRandomActiveTeamMember" ->
              assigned /\ GetUserTeam(oldUserID) # {} /\ fail("ErrNoCandidate", 612)
         [] OTHER ->
              /\ assigned
              /\ \E teamName \in GetUserTeam(oldUserID) :
                 \E newReviewer \in GetRandomActiveTeamMember(teamName, oldUserID) :
                   CASE f = "RemoveReviewer" -> fail("store error", 617)
                     [] f = "AddReviewer" ->
                          /\ pr_reviewers' = RemoveReviewer(pr_reviewers, prID, oldUserID)
                          /\ UNCHANGED assignment_events
                          /\ ret' = Result("ReassignReviewer", "store error", 621,
                                           NilPR, "", NilUser)
                     [] f = "AddAssignmentEvent" ->
                          /\ pr_reviewers' =
                               AddReviewer(RemoveReviewer(pr_reviewers, prID, oldUserID),
                                           prID, newReviewer)
                          /\ UNCHANGED assignment_events
                          /\ \E updatedReviewers \in Perms(GetPRReviewers(prID)') :
                                ret' = Result("ReassignReviewer", "nil", 638,
                                              [GetPRByID(prID) EXCEPT !.Reviewers = updatedReviewers],
                                              newReviewer, NilUser)
                     [] f = "GetPRReviewers_updated" ->
                          /\ pr_reviewers' =
                               AddReviewer(RemoveReviewer(pr_reviewers, prID, oldUserID),
                                           prID, newReviewer)
                          /\ assignment_events' =
                               AddAssignmentEvent(assignment_events, prID, newReviewer)
                          /\ ret' = Result("ReassignReviewer", "nil", 638,
                                           GetPRByID(prID), newReviewer, NilUser)

\* MergePR: the failing call
MergeFaults == {"GetPRByID", "GetPRReviewers_merged", "SetPRStatus", "GetPRReviewers"}

MergePR_faulty(prID, f) ==
    LET merged == GetPRByID_ok(prID) /\ GetPRByID(prID).Status = "MERGED"
        open   == GetPRByID_ok(prID) /\ GetPRByID(prID).Status # "MERGED"
    IN
    /\ CASE f = "GetPRByID" ->
              /\ ret' = Result("MergePR", "ErrNotFound", 543, NilPR, "", NilUser)
              /\ UNCHANGED prs
         [] f = "GetPRReviewers_merged" ->
              /\ merged
              /\ ret' = Result("MergePR", "nil", 550, GetPRByID(prID), "", NilUser)
              /\ UNCHANGED prs
         [] f = "SetPRStatus" ->
              /\ open
              /\ ret' = Result("MergePR", "store error", 554, NilPR, "", NilUser)
              /\ UNCHANGED prs
         [] f = "GetPRReviewers" ->
              /\ open
              /\ prs' = SetPRStatus(prs, prID, "MERGED")
              /\ ret' = Result("MergePR", "nil", 570,
                               [GetPRByID(prID) EXCEPT !.Status = "MERGED"], "", NilUser)
    /\ UNCHANGED <<users, teams, team_members, pr_reviewers, assignment_events, pc, loc>>

\* SetUserActive: the failing call
SetUserActiveFaults == {"GetUserByID", "SetUserActive", "GetUserTeam"}

SetUserActive_faulty(userID, active, f) ==
    /\ CASE f = "GetUserByID" ->
              /\ ret' = Result("SetUserActive", "ErrNotFound", 446, NilPR, "", NilUser)
              /\ UNCHANGED users
         [] f = "SetUserActive" ->
              /\ GetUserByID_ok(userID)
              /\ ret' = Result("SetUserActive", "store error", 450, NilPR, "", NilUser)
              /\ UNCHANGED users
         [] f = "GetUserTeam" ->
              \* the error is dropped and the team name left empty
              /\ GetUserByID_ok(userID)
              /\ users' = SetUserActive_repo(users, userID, active)
              /\ ret' = Result("SetUserActive", "nil", 459, NilPR, "",
                               [Name |-> users[userID].name, IsActive |-> active])
    /\ UNCHANGED <<teams, team_members, prs, pr_reviewers, assignment_events, pc, loc>>

\* GetTeam: the failing call; what GetTeam returns then
GetTeamFaults == {"GetTeamByName", "GetTeamMembers"}

GetTeam_faulty(teamName, f) ==
    IF f = "GetTeamByName" \/ ~GetTeamByName_ok(teamName)
    THEN [err |-> "ErrNotFound", team |-> "", members |-> {}]
    ELSE [err |-> "store error", team |-> "", members |-> {}]

NextFault ==
    \/ Next
    \/ \E t \in TeamNames, f \in CreateTeamFaults : CreateTeam_faulty(t, f)
    \/ \E p \in PRIds, n \in Titles, a \in UserIds, f \in CreatePRFaults :
         CreatePR_faulty(p, n, a, f)

SpecFault == Init /\ [][NextFault]_vars

\* the same, from the two teams of InitPool
SpecPoolFault == InitPool /\ [][NextFault]_vars

\* from the two teams of InitPool: CreatePR, MergePR and ReassignReviewer, and
\* ReassignReviewer with a failing repository call
NextReassignFault ==
    \/ \E p \in PRIds, n \in Titles, a \in UserIds : CreatePR(p, n, a)
    \/ \E p \in PRIds : MergePR(p)
    \/ \E p \in PRIds, u \in UserIds : ReassignReviewer(p, u)
    \/ \E p \in PRIds, u \in UserIds, f \in ReassignFaults :
         ReassignReviewer_faulty(p, u, f)

SpecReassignFault == InitPool /\ [][NextReassignFault]_vars

\* from the empty schema, the three operations of more than one write, with
\* and without a failing repository call
NextPartial ==
    \/ \E t \in TeamNames : CreateTeam(t)
    \/ \E t \in TeamNames, f \in CreateTeamFaults : CreateTeam_faulty(t, f)
    \/ \E p \in PRIds, n \in Titles, a \in UserIds : CreatePR(p, n, a)
    \/ \E p \in PRIds, n \in Titles, a \in UserIds, f \in CreatePRFaults :
         CreatePR_faulty(p, n, a, f)
    \/ \E p \in PRIds, u \in UserIds : ReassignReviewer(p, u)
    \/ \E p \in PRIds, u \in UserIds, f \in ReassignFaults :
         ReassignReviewer_faulty(p, u, f)

SpecPartial == Init /\ [][NextPartial]_vars

\* from one team of three active users: CreatePR, MergePR, ReassignReviewer and
\* SetUserActive, each with and without a failing repository call
NextStoreFault ==
    \/ \E p \in PRIds, n \in Titles, a \in UserIds : CreatePR(p, n, a)
    \/ \E p \in PRIds, n \in Titles, a \in UserIds, f \in CreatePRFaults :
         CreatePR_faulty(p, n, a, f)
    \/ \E p \in PRIds : MergePR(p)
    \/ \E p \in PRIds, f \in MergeFaults : MergePR_faulty(p, f)
    \/ \E p \in PRIds, u \in UserIds : ReassignReviewer(p, u)
    \/ \E p \in PRIds, u \in UserIds, f \in ReassignFaults :
         ReassignReviewer_faulty(p, u, f)
    \/ \E u \in UserIds, b \in BOOLEAN : SetUserActive(u, b)
    \/ \E u \in UserIds, b \in BOOLEAN, f \in SetUserActiveFaults :
         SetUserActive_faulty(u, b, f)

\* ------------------------------------------------- service, call by call
\* Each action below is one repository call of a running service method,
\* together with the branches up to the next call. A request is started by
\* its first call and ends with a return.

\* one team of three active users: what CreateTeam("t1", ...) leaves
InitConc ==
    LET members == [i \in 1..3 |->
                      [UserID |-> <<"u1", "u2", "u3">>[i], Username |-> "n1", IsActive |-> TRUE]]
    IN
    /\ teams = CreateTeam_repo({}, "t1")
    /\ users = MembersUsers(<<>>, members)
    /\ team_members = MembersLinks({}, CreateTeam_id("t1"), members)
    /\ prs = <<>>
    /\ pr_reviewers = {}
    /\ assignment_events = [k \in PRIds \X UserIds |-> 0]
    /\ ret = NoResult
    /\ pc = [p \in Procs |-> "idle"]
    /\ loc = [p \in Procs |-> NoLocals]

SpecStoreFault == InitConc /\ [][NextStoreFault]_vars

Goto(self, label, locals) ==
    /\ pc' = [pc EXCEPT ![self] = label]
    /\ loc' = [loc EXCEPT ![self] = locals]
    /\ UNCHANGED ret

Return(self, result) ==
    /\ pc' = [pc EXCEPT ![self] = "idle"]
    /\ loc' = [loc EXCEPT ![self] = NoLocals]
    /\ ret' = result

Fail(self, op, err, at) == Return(self, Result(op, err, at, NilPR, "", NilUser))

\* --- CreatePR
c_PRExists(self, prID, prName, authorID) ==
    /\ pc[self] = "idle"
    /\ IF PRExists(prID)
       THEN Fail(self, "CreatePR", "ErrPRExists", 469)
       ELSE Goto(self, "c_GetUserByID",
                 [NoLocals EXCEPT !.prID = prID, !.prName = prName, !.userID = authorID])
    /\ UNCHANGED db

c_GetUserByID(self) ==
    /\ pc[self] = "c_GetUserByID"
    /\ IF ~authorKnown(loc[self].userID)
       THEN Fail(self, "CreatePR", "ErrNotFound", 475)
       ELSE Goto(self, "c_GetUserTeam", loc[self])
    /\ UNCHANGED db

c_GetUserTeam(self) ==
    /\ pc[self] = "c_GetUserTeam"
    /\ IF GetUserTeam(loc[self].userID) = {}
       THEN Fail(self, "CreatePR", "author has no team", 481)
       ELSE \E teamName \in GetUserTeam(loc[self].userID) :
            Goto(self, "c_CreatePRWithID", [loc[self] EXCEPT !.teamName = teamName])
    /\ UNCHANGED db

c_CreatePRWithID(self) ==
    /\ pc[self] = "c_CreatePRWithID"
    /\ IF ~CreatePRWithID_ok(loc[self].prID, loc[self].userID)
       THEN /\ Fail(self, "CreatePR", "store error", 486)
            /\ UNCHANGED prs
       ELSE /\ prs' = CreatePRWithID(prs, loc[self].prID, loc[self].prName, loc[self].userID)
            /\ Goto(self, "c_assignReviewers", loc[self])
    /\ UNCHANGED <<users, teams, team_members, pr_reviewers, assignment_events>>

\* where CreatePR goes after assignReviewers and after each round of its loop
c_loop(self, locals) ==
    IF locals.i < Len(locals.reviewers)
    THEN Goto(self, "c_AddReviewer", [locals EXCEPT !.i = @ + 1])
    ELSE Return(self, Result("CreatePR", "nil", 511,
                             [ID |-> locals.prID, Title |-> locals.prName,
                              AuthorID |-> locals.userID, Status |-> "OPEN",
                              Reviewers |-> locals.reviewers], "", NilUser))

c_assignReviewers(self) ==
    /\ pc[self] = "c_assignReviewers"
    /\ \E reviewers \in assignReviewers(loc[self].teamName, loc[self].userID) :
         c_loop(self, [loc[self] EXCEPT !.reviewers = reviewers])
    /\ UNCHANGED db

c_AddReviewer(self) ==
    /\ pc[self] = "c_AddReviewer"
    /\ pr_reviewers' = AddReviewer(pr_reviewers, loc[self].prID, loc[self].reviewers[loc[self].i])
    /\ Goto(self, "c_AddAssignmentEvent", loc[self])
    /\ UNCHANGED <<users, teams, team_members, prs, assignment_events>>

c_AddAssignmentEvent(self) ==
    /\ pc[self] = "c_AddAssignmentEvent"
    /\ assignment_events' =
         AddAssignmentEvent(assignment_events, loc[self].prID, loc[self].reviewers[loc[self].i])
    /\ c_loop(self, loc[self])
    /\ UNCHANGED <<users, teams, team_members, prs, pr_reviewers>>

\* --- MergePR
m_GetPRByID(self, prID) ==
    /\ pc[self] = "idle"
    /\ IF ~GetPRByID_ok(prID)
       THEN Fail(self, "MergePR", "ErrNotFound", 543)
       ELSE LET pr == GetPRByID(prID) IN
            Goto(self, IF pr.Status = "MERGED" THEN "m_GetPRReviewers_merged" ELSE "m_SetPRStatus",
                 [NoLocals EXCEPT !.prID = prID, !.pr = pr])
    /\ UNCHANGED db

m_GetPRReviewers_merged(self) ==
    /\ pc[self] = "m_GetPRReviewers_merged"
    /\ \E reviewers \in Perms(GetPRReviewers(loc[self].prID)) :
         Return(self, MergePR_merged(loc[self].pr, reviewers))
    /\ UNCHANGED db

m_SetPRStatus(self) ==
    /\ pc[self] = "m_SetPRStatus"
    /\ prs' = SetPRStatus(prs, loc[self].prID, "MERGED")
    /\ Goto(self, "m_GetPRReviewers", loc[self])
    /\ UNCHANGED <<users, teams, team_members, pr_reviewers, assignment_events>>

m_GetPRReviewers(self) ==
    /\ pc[self] = "m_GetPRReviewers"
    /\ \E reviewers \in Perms(GetPRReviewers(loc[self].prID)) :
         Return(self, Result("MergePR", "nil", 570,
                             [loc[self].pr EXCEPT !.Status = "MERGED", !.Reviewers = reviewers],
                             "", NilUser))
    /\ UNCHANGED db

\* --- ReassignReviewer
r_GetPRByID(self, prID, oldUserID) ==
    /\ pc[self] = "idle"
    /\ TotalEvents < MaxEvents
    /\ IF ~GetPRByID_ok(prID)
       THEN Fail(self, "ReassignReviewer", "ErrNotFound", 578)
       ELSE LET pr == GetPRByID(prID) IN
            IF pr.Status = "MERGED"
            THEN Fail(self, "ReassignReviewer", "ErrPRMerged", 582)
            ELSE Goto(self, "r_GetPRReviewers",
                      [NoLocals EXCEPT !.prID = prID, !.userID = oldUserID, !.pr = pr])
    /\ UNCHANGED db

r_GetPRReviewers(self) ==
    /\ pc[self] = "r_GetPRReviewers"
    /\ IF ~oldUserAssigned(GetPRReviewers(loc[self].prID), loc[self].userID)
       THEN Fail(self, "ReassignReviewer", "ErrNotAssigned", 600)
       ELSE Goto(self, "r_GetUserTeam", loc[self])
    /\ UNCHANGED db

r_GetUserTeam(self) ==
    /\ pc[self] = "r_GetUserTeam"
    /\ IF GetUserTeam(loc[self].userID) = {}
       THEN Fail(self, "ReassignReviewer", "old reviewer has no team", 606)
       ELSE \E teamName \in GetUserTeam(loc[self].userID) :
            Goto(self, "r_GetRandomActiveTeamMember", [loc[self] EXCEPT !.teamName = teamName])
    /\ UNCHANGED db

r_GetRandomActiveTeamMember(self) ==
    /\ pc[self] = "r_GetRandomActiveTeamMember"
    /\ IF GetRandomActiveTeamMember(loc[self].teamName, loc[self].userID) = {}
       THEN Fail(self, "ReassignReviewer", "ErrNoCandidate", 612)
       ELSE \E newReviewer \in GetRandomActiveTeamMember(loc[self].teamName, loc[self].userID) :
            Goto(self, "r_RemoveReviewer", [loc[self] EXCEPT !.newReviewer = newReviewer])
    /\ UNCHANGED db

r_RemoveReviewer(self) ==
    /\ pc[self] = "r_RemoveReviewer"
    /\ pr_reviewers' = RemoveReviewer(pr_reviewers, loc[self].prID, loc[self].userID)
    /\ Goto(self, "r_AddReviewer", loc[self])
    /\ UNCHANGED <<users, teams, team_members, prs, assignment_events>>

r_AddReviewer(self) ==
    /\ pc[self] = "r_AddReviewer"
    /\ pr_reviewers' = AddReviewer(pr_reviewers, loc[self].prID, loc[self].newReviewer)
    /\ Goto(self, "r_AddAssignmentEvent", loc[self])
    /\ UNCHANGED <<users, teams, team_members, prs, assignment_events>>

r_AddAssignmentEvent(self) ==
    /\ pc[self] = "r_AddAssignmentEvent"
    /\ assignment_events' =
         AddAssignmentEvent(assignment_events, loc[self].prID, loc[self].newReviewer)
    /\ Goto(self, "r_GetPRReviewers_updated", loc[self])
    /\ UNCHANGED <<users, teams, team_members, prs, pr_reviewers>>

r_GetPRReviewers_updated(self) ==
    /\ pc[self] = "r_GetPRReviewers_updated"
    /\ \E updatedReviewers \in Perms(GetPRReviewers(loc[self].prID)) :
         Return(self, Result("ReassignReviewer", "nil", 638,
                             [loc[self].pr EXCEPT !.Reviewers = updatedReviewers],
                             loc[self].newReviewer, NilUser))
    /\ UNCHANGED db

NextConc ==
    \E self \in Procs :
        \/ \E p \in PRIds, n \in Titles, a \in UserIds : c_PRExists(self, p, n, a)
        \/ c_GetUserByID(self)
        \/ c_GetUserTeam(self)
        \/ c_CreatePRWithID(self)
        \/ c_assignReviewers(self)
        \/ c_AddReviewer(self)
        \/ c_AddAssignmentEvent(self)
        \/ \E p \in PRIds : m_GetPRByID(self, p)
        \/ m_GetPRReviewers_merged(self)
        \/ m_SetPRStatus(self)
        \/ m_GetPRReviewers(self)
        \/ \E p \in PRIds, u \in UserIds : r_GetPRByID(self, p, u)
        \/ r_GetPRReviewers(self)
        \/ r_GetUserTeam(self)
        \/ r_GetRandomActiveTeamMember(self)
        \/ r_RemoveReviewer(self)
        \/ r_AddReviewer(self)
        \/ r_AddAssignmentEvent(self)
        \/ r_GetPRReviewers_updated(self)

SpecConc == InitConc /\ [][NextConc]_vars

\* --- two ReassignReviewer requests about the same PR and old reviewer
\* One team of four active users. CreatePR is one step; a ReassignReviewer
\* request runs call by call, and while one is running the other request may
\* only start with the same prID and oldUserID.
InitPair ==
    LET members == [i \in 1..4 |->
                      [UserID |-> <<"u1", "u2", "u3", "u4">>[i], Username |-> "n1",
                       IsActive |-> TRUE]]
    IN
    /\ teams = CreateTeam_repo({}, "t1")
    /\ users = MembersUsers(<<>>, members)
    /\ team_members = MembersLinks({}, CreateTeam_id("t1"), members)
    /\ prs = <<>>
    /\ pr_reviewers = {}
    /\ assignment_events = [k \in PRIds \X UserIds |-> 0]
    /\ ret = NoResult
    /\ pc = [p \in Procs |-> "idle"]
    /\ loc = [p \in Procs |-> NoLocals]

SameRequest(self, prID, oldUserID) ==
    \A other \in Procs \ {self} :
        pc[other] # "idle" => loc[other].prID = prID /\ loc[other].userID = oldUserID

NextPair ==
    \/ \E p \in PRIds, n \in Titles, a \in UserIds :
         (\A self \in Procs : pc[self] = "idle") /\ CreatePR(p, n, a)
    \/ \E self \in Procs :
        \/ \E p \in PRIds, u \in UserIds : SameRequest(self, p, u) /\ r_GetPRByID(self, p, u)
        \/ r_GetPRReviewers(self)
        \/ r_GetUserTeam(self)
        \/ r_GetRandomActiveTeamMember(self)
        \/ r_RemoveReviewer(self)
        \/ r_AddReviewer(self)
        \/ r_AddAssignmentEvent(self)
        \/ r_GetPRReviewers_updated(self)

SpecPair == InitPair /\ [][NextPair]_vars

\* --- two CreatePR requests with the same prID
\* One team of three users, each active or not; both requests run call by
\* call and name the one prID of PRIds.
InitCreatePair ==
    LET members == [i \in 1..3 |->
                      [UserID |-> <<"u1", "u2", "u3">>[i], Username |-> "n1", IsActive |-> TRUE]]
    IN
    /\ teams = CreateTeam_repo({}, "t1")
    /\ \E active \in [{"u1", "u2", "u3"} -> BOOLEAN] :
         users = [u \in DOMAIN MembersUsers(<<>>, members) |->
                    [MembersUsers(<<>>, members)[u] EXCEPT !.is_active = active[u]]]
    /\ team_members = MembersLinks({}, CreateTeam_id("t1"), members)
    /\ prs = <<>>
    /\ pr_reviewers = {}
    /\ assignment_events = [k \in PRIds \X UserIds |-> 0]
    /\ ret = NoResult
    /\ pc = [p \in Procs |-> "idle"]
    /\ loc = [p \in Procs |-> NoLocals]

NextCreatePair ==
    \E self \in Procs :
        \/ \E p \in PRIds, n \in Titles, a \in UserIds : c_PRExists(self, p, n, a)
        \/ c_GetUserByID(self)
        \/ c_GetUserTeam(self)
        \/ c_CreatePRWithID(self)
        \/ c_assignReviewers(self)
        \/ c_AddReviewer(self)
        \/ c_AddAssignmentEvent(self)

SpecCreatePair == InitCreatePair /\ [][NextCreatePair]_vars

\* --- SetUserActive
s_GetUserByID(self, userID, active) ==
    /\ pc[self] = "idle"
    /\ IF ~GetUserByID_ok(userID)
       THEN Fail(self, "SetUserActive", "ErrNotFound", 446)
       ELSE Goto(self, "s_SetUserActive",
                 [NoLocals EXCEPT !.userID = userID, !.active = active,
                                  !.user = [Name |-> users[userID].name,
                                            IsActive |-> users[userID].is_active]])
    /\ UNCHANGED db

s_SetUserActive(self) ==
    /\ pc[self] = "s_SetUserActive"
    /\ users' = SetUserActive_repo(users, loc[self].userID, loc[self].active)
    /\ Goto(self, "s_GetUserTeam", loc[self])
    /\ UNCHANGED <<teams, team_members, prs, pr_reviewers, assignment_events>>

s_GetUserTeam(self) ==
    /\ pc[self] = "s_GetUserTeam"
    /\ Return(self, Result("SetUserActive", "nil", 459, NilPR, "",
                           [Name |-> loc[self].user.Name, IsActive |-> loc[self].active]))
    /\ UNCHANGED db

\* --- BulkDeactivateTeam
b_GetTeamByName(self, teamName, reassign) ==
    /\ pc[self] = "idle"
    /\ IF ~GetTeamByName_ok(teamName)
       THEN Fail(self, "BulkDeactivateTeam", "ErrNotFound", 675)
       ELSE Goto(self, "b_DeactivateTeamMembers", [NoLocals EXCEPT !.teamName = teamName])
    /\ UNCHANGED db

b_DeactivateTeamMembers(self) ==
    /\ pc[self] = "b_DeactivateTeamMembers"
    /\ users' = DeactivateTeamMembers(users, GetTeamByName(loc[self].teamName).ID)
    /\ Return(self, Result("BulkDeactivateTeam", "nil", 683, NilPR, "", NilUser))
    /\ UNCHANGED <<teams, team_members, prs, pr_reviewers, assignment_events>>

\* Request 1 is a CreatePR or a ReassignReviewer, request 2 a SetUserActive or
\* a BulkDeactivateTeam; each starts its next call when it has returned.
NextConcActive ==
    \/ \E p \in PRIds, n \in Titles, a \in UserIds : c_PRExists(1, p, n, a)
    \/ c_GetUserByID(1)
    \/ c_GetUserTeam(1)
    \/ c_CreatePRWithID(1)
    \/ c_assignReviewers(1)
    \/ c_AddReviewer(1)
    \/ c_AddAssignmentEvent(1)
    \/ \E p \in PRIds, u \in UserIds : r_GetPRByID(1, p, u)
    \/ r_GetPRReviewers(1)
    \/ r_GetUserTeam(1)
    \/ r_GetRandomActiveTeamMember(1)
    \/ r_RemoveReviewer(1)
    \/ r_AddReviewer(1)
    \/ r_AddAssignmentEvent(1)
    \/ r_GetPRReviewers_updated(1)
    \/ \E u \in UserIds, b \in BOOLEAN : s_GetUserByID(2, u, b)
    \/ s_SetUserActive(2)
    \/ s_GetUserTeam(2)
    \/ \E t \in TeamNames, b \in BOOLEAN : b_GetTeamByName(2, t, b)
    \/ b_DeactivateTeamMembers(2)

SpecConcActive == InitConc /\ [][NextConcActive]_vars

\* --- CreateTeam, call by call, each call succeeding or returning an error
t_TeamExists(self, teamName, members) ==
    /\ pc[self] = "idle"
    /\ \/ Fail(self, "CreateTeam", "store error", 396)
       \/ IF TeamExists(teamName)
          THEN Fail(self, "CreateTeam", "ErrTeamExists", 399)
          ELSE Goto(self, "t_CreateTeam",
                    [NoLocals EXCEPT !.teamName = teamName, !.members = members])
    /\ UNCHANGED db

\* where CreateTeam goes after the INSERT of the team and after each record
t_loop(self, locals) ==
    IF locals.i < Len(locals.members)
    THEN Goto(self, "t_CreateUser", [locals EXCEPT !.i = @ + 1])
    ELSE Return(self, Result("CreateTeam", "nil", 424, NilPR, "", NilUser))

t_CreateTeam(self) ==
    /\ pc[self] = "t_CreateTeam"
    /\ \/ Fail(self, "CreateTeam", "store error", 404) /\ UNCHANGED teams
       \/ /\ teams' = CreateTeam_repo(teams, loc[self].teamName)
          /\ t_loop(self, loc[self])
    /\ UNCHANGED <<users, team_members, prs, pr_reviewers, assignment_events>>

t_CreateUser(self) ==
    /\ pc[self] = "t_CreateUser"
    /\ LET member == loc[self].members[loc[self].i] IN
       \/ Fail(self, "CreateTeam", "store error", 410) /\ UNCHANGED users
       \/ /\ users' = CreateUser(users, member.UserID, member.Username)
          /\ Goto(self, "t_SetUserActive", loc[self])
    /\ UNCHANGED <<teams, team_members, prs, pr_reviewers, assignment_events>>

t_SetUserActive(self) ==
    /\ pc[self] = "t_SetUserActive"
    /\ LET member == loc[self].members[loc[self].i] IN
       \/ Fail(self, "CreateTeam", "store error", 415) /\ UNCHANGED users
       \/ /\ users' = SetUserActive_repo(users, member.UserID, member.IsActive)
          /\ Goto(self, "t_AddMember", loc[self])
    /\ UNCHANGED <<teams, team_members, prs, pr_reviewers, assignment_events>>

t_AddMember(self) ==
    /\ pc[self] = "t_AddMember"
    /\ LET member == loc[self].members[loc[self].i] IN
       \/ Fail(self, "CreateTeam", "store error", 420) /\ UNCHANGED team_members
       \/ /\ team_members' =
               AddMember(team_members, CreateTeam_id(loc[self].teamName), member.UserID)
          /\ t_loop(self, loc[self])
    /\ UNCHANGED <<users, teams, prs, pr_reviewers, assignment_events>>

\* from the empty schema, one CreateTeam request after the other
NextTeamSteps ==
    \/ \E t \in TeamNames, members \in MemberLists : t_TeamExists(1, t, members)
    \/ t_CreateTeam(1)
    \/ t_CreateUser(1)
    \/ t_SetUserActive(1)
    \/ t_AddMember(1)

SpecTeamSteps == Init /\ [][NextTeamSteps]_vars

\* ---------------------------------------------------------------- properties
\* The properties read the tables themselves, not the repository queries.

\* the users bound as reviewers of a PR (rows of pr_reviewers)
Bound(p) == {u \in UserIds : <<p, u>> \in pr_reviewers}

\* the number of assignment_events rows naming a user
EventsIn(ev, u) == SumOver([p \in PRIds |-> ev[<<p, u>>]], PRIds)
EventsOf(u) == EventsIn(assignment_events, u)

\* the active members of team t other than user x
Eligible(t, x) ==
    {u \in DOMAIN users : <<t, u>> \in team_members /\ users[u].is_active /\ u # x}

\* C1: in every reachable state no PR has its own author among its reviewer
\* bindings.
C1_AuthorNeverReviewer ==
    \A p \in DOMAIN prs : prs[p].author_id \notin Bound(p)

\* C2: in every reachable state every PR has at most 2 reviewer bindings.
C2_AtMostTwoReviewers ==
    \A p \in PRIds : Cardinality(Bound(p)) <= 2

\* a ReassignReviewer has swapped in a user who is not the author, on a PR
\* that keeps two reviewers
C2_Witness ==
    /\ ret.op = "ReassignReviewer" /\ ret.err = "nil"
    /\ ret.newID # ret.pr.AuthorID
    /\ Cardinality(Bound(ret.pr.ID)) = 2

\* C3: once a PR's status is MERGED its reviewer bindings never change, also
\* when MergePR runs between the repository calls of a CreatePR or
\* ReassignReviewer on the same PR.
C3_MergedFrozen ==
    [][\A p \in DOMAIN prs : prs[p].status = "MERGED" => Bound(p)' = Bound(p)]_vars

\* C4: ReassignReviewer on a MERGED PR fails with ErrPRMerged, whatever the old
\* reviewer, and leaves pr_reviewers and assignment_events as they were.
C4_ReassignOnMerged ==
    [][\A p \in PRIds, u \in UserIds :
        (/\ ret'.op = "ReassignReviewer"
         /\ p \in DOMAIN prs /\ prs[p].status = "MERGED"
         /\ ReassignReviewer(p, u))
        => /\ ret'.err = "ErrPRMerged"
           /\ pr_reviewers' = pr_reviewers
           /\ assignment_events' = assignment_events]_vars

\* a ReassignReviewer was refused on a merged PR that has reviewers
C4_Witness ==
    /\ ret.op = "ReassignReviewer" /\ ret.err = "ErrPRMerged"
    /\ \E p \in DOMAIN prs : prs[p].status = "MERGED" /\ Bound(p) # {}

C6_CreatePRReviewers ==
    [][\A p \in PRIds, n \in Titles, a \in UserIds :
        (/\ ret'.op = "CreatePR"
         /\ p \notin DOMAIN prs
         /\ a \in DOMAIN users
         /\ \E t \in teams : <<t, a>> \in team_members
         /\ CreatePR(p, n, a))
        => /\ ret'.err = "nil"
           /\ ret'.pr.ID = p
           /\ ret'.pr.Status = "OPEN"
           /\ p \in DOMAIN prs' /\ prs'[p].status = "OPEN"
           /\ Injective(ret'.pr.Reviewers)
           /\ \E t \in teams :
                /\ <<t, a>> \in team_members
                /\ Range(ret'.pr.Reviewers) \subseteq Eligible(t, a)
                /\ Len(ret'.pr.Reviewers) = Min(2, Cardinality(Eligible(t, a)))
           /\ Bound(p)' = Range(ret'.pr.Reviewers)]_vars

\* a CreatePR has returned two reviewers, now bound, out of three active
\* team mates of its author
C6_Witness ==
    /\ ret.op = "CreatePR" /\ ret.err = "nil" /\ Len(ret.pr.Reviewers) = 2
    /\ Bound(ret.pr.ID) = Range(ret.pr.Reviewers)
    /\ \E t \in teams : Cardinality(Eligible(t, ret.pr.AuthorID)) = 3

C8_ReassignNotAssigned ==
    [][\A p \in PRIds, u \in UserIds :
        (/\ ret'.op = "ReassignReviewer"
         /\ p \in DOMAIN prs /\ prs[p].status = "OPEN"
         /\ u \notin Bound(p)
         /\ ReassignReviewer(p, u))
        => /\ ret'.err = "ErrNotAssigned"
           /\ pr_reviewers' = pr_reviewers
           /\ assignment_events' = assignment_events]_vars

\* a ReassignReviewer was refused on an open PR for a user not bound to it
C8_Witness ==
    /\ ret.op = "ReassignReviewer" /\ ret.err = "ErrNotAssigned"
    /\ \E p \in DOMAIN prs : prs[p].status = "OPEN"

\* C9: CreatePR with a prID in use fails with ErrPRExists and leaves the PR's
\* row (title, author, status), pr_reviewers and assignment_events unchanged.
C9_CreatePRDuplicate ==
    [][\A p \in PRIds, n \in Titles, a \in UserIds :
        (/\ ret'.op = "CreatePR"
         /\ p \in DOMAIN prs
         /\ CreatePR(p, n, a))
        => /\ ret'.err = "ErrPRExists"
           /\ prs' = prs
           /\ pr_reviewers' = pr_reviewers
           /\ assignment_events' = assignment_events]_vars

\* a CreatePR was refused for a prID in use
C9_Witness ==
    ret.op = "CreatePR" /\ ret.err = "ErrPRExists" /\ prs # <<>>

\* C10: CreatePR for an author who is not a known user (the prID being free,
\* the check that comes first) fails with ErrNotFound and writes no PR, no
\* reviewer binding and no assignment event.
C10_CreatePRUnknownAuthor ==
    [][\A p \in PRIds, n \in Titles, a \in UserIds :
        (/\ ret'.op = "CreatePR"
         /\ p \notin DOMAIN prs
         /\ a \notin DOMAIN users
         /\ CreatePR(p, n, a))
        => /\ ret'.err = "ErrNotFound"
           /\ prs' = prs
           /\ pr_reviewers' = pr_reviewers
           /\ assignment_events' = assignment_events]_vars

\* a CreatePR was refused for an unknown author while other users exist
C10_Witness ==
    /\ ret.op = "CreatePR" /\ ret.err = "ErrNotFound"
    /\ users # <<>> /\ prs = <<>>

\* the teams a user is a member of (rows of team_members)
TeamsOf(u) == {t \in teams : <<t, u>> \in team_members}

\* C11: CreatePR for an unused prID by a known author who is in no team
\* returns no error and persists the PR as OPEN with no reviewer.
C11_AuthorWithoutTeam ==
    [][\A p \in PRIds, n \in Titles, a \in UserIds :
        (/\ ret'.op = "CreatePR"
         /\ p \notin DOMAIN prs /\ a \in DOMAIN users /\ TeamsOf(a) = {}
         /\ CreatePR(p, n, a))
        => /\ ret'.err = "nil"
           /\ ret'.pr.Status = "OPEN" /\ ret'.pr.Reviewers = <<>>
           /\ p \in DOMAIN prs' /\ prs'[p].status = "OPEN"
           /\ Bound(p)' = {}]_vars

\* C12: when AddReviewer fails for some of the candidates CreatePR selected,
\* CreatePR still succeeds, the candidates whose AddReviewer did not fail are
\* bound, and the reviewers returned are exactly the users bound to the PR.
C12_PartialBinding ==
    [][\A p \in PRIds, n \in Titles, a \in UserIds, f \in CreatePRFaults :
        (/\ ret'.op = "CreatePR"
         /\ f.call = "AddReviewer"
         /\ CreatePR_faulty(p, n, a, f))
        => /\ ret'.err = "nil"
           /\ \A i \in 1..Len(ret'.pr.Reviewers) :
                i \notin f.at => ret'.pr.Reviewers[i] \in Bound(p)'
           /\ Range(ret'.pr.Reviewers) = Bound(p)']_vars

\* C13: a PR row appears with status OPEN, a row never disappears, and the
\* only change of a status is OPEN to MERGED, made by MergePR; so MERGED never
\* becomes OPEN again.
C13_StatusMachine ==
    [][\A p \in PRIds :
        /\ (p \notin DOMAIN prs /\ p \in DOMAIN prs') => prs'[p].status = "OPEN"
        /\ p \in DOMAIN prs =>
             /\ p \in DOMAIN prs'
             /\ prs'[p].status # prs[p].status =>
                  /\ prs[p].status = "OPEN" /\ prs'[p].status = "MERGED"
                  /\ ret'.op = "MergePR" /\ ret'.err = "nil"]_vars

\* a MergePR has turned an OPEN PR that has reviewers into a MERGED one
C13_Witness ==
    /\ ret.op = "MergePR" /\ ret.at = 570
    /\ prs[ret.pr.ID].status = "MERGED" /\ Bound(ret.pr.ID) # {}

\* C14: the replacement a successful ReassignReviewer(p, u) returns is not u,
\* is a member of a team of u, and is active when it is selected.
C14_ReplacementEligible ==
    [][\A p \in PRIds, u \in UserIds :
        (/\ ret'.op = "ReassignReviewer" /\ ret'.err = "nil"
         /\ ReassignReviewer(p, u))
        => /\ ret'.newID # u
           /\ \E t \in TeamsOf(u) : ret'.newID \in Eligible(t, u)]_vars

\* a ReassignReviewer has succeeded while a team mate of the replacement,
\* not bound to the PR, is inactive
C14_Witness ==
    /\ ret.op = "ReassignReviewer" /\ ret.err = "nil"
    /\ \E v \in DOMAIN users :
         /\ ~users[v].is_active /\ v \notin Bound(ret.pr.ID)
         /\ TeamsOf(v) \cap TeamsOf(ret.newID) # {}

\* C15: ReassignReviewer(p, u) on an OPEN PR p with u bound, where no team of
\* u has an active member other than u, fails with ErrNoCandidate; the binding
\* of u stays and no assignment event is added.
C15_ReassignNoCandidate ==
    [][\A p \in PRIds, u \in UserIds :
        (/\ ret'.op = "ReassignReviewer"
         /\ p \in DOMAIN prs /\ prs[p].status = "OPEN"
         /\ u \in Bound(p)
         /\ TeamsOf(u) # {}
         /\ \A t \in TeamsOf(u) : Eligible(t, u) = {}
         /\ ReassignReviewer(p, u))
        => /\ ret'.err = "ErrNoCandidate"
           /\ pr_reviewers' = pr_reviewers
           /\ assignment_events' = assignment_events]_vars

\* a ReassignReviewer has found no candidate for an active reviewer of an
\* OPEN PR
C15_Witness ==
    /\ ret.op = "ReassignReviewer" /\ ret.err = "ErrNoCandidate"
    /\ \E p \in DOMAIN prs :
         prs[p].status = "OPEN" /\ \E u \in Bound(p) : users[u].is_active

\* C16: whenever a reviewer binding is written, the user it names is active
\* at that moment, also when a SetUserActive or a BulkDeactivateTeam runs
\* between the repository calls of the CreatePR or ReassignReviewer that
\* writes it.
C16_BindingToActive ==
    [][\A p \in PRIds, u \in UserIds :
        (<<p, u>> \notin pr_reviewers /\ <<p, u>> \in pr_reviewers')
        => u \in DOMAIN users /\ users[u].is_active]_vars

\* C17: after any sequence of operations every user is a member of at most
\* one team.
C17_OneTeamPerUser ==
    \A u \in UserIds : Cardinality(TeamsOf(u)) <= 1

\* C18: CreateTeam with a name that exists fails with ErrTeamExists and changes
\* no table: memberships, names and active flags stay as they are.
C18_CreateTeamDuplicate ==
    [][\A t \in TeamNames :
        (/\ ret'.op = "CreateTeam"
         /\ t \in teams
         /\ CreateTeam(t))
        => /\ ret'.err = "ErrTeamExists"
           /\ db' = db]_vars

\* a CreateTeam was refused for the name of a team that has members
C18_Witness ==
    /\ ret.op = "CreateTeam" /\ ret.err = "ErrTeamExists"
    /\ team_members # {}

\* C19: after a successful CreateTeam(t, ms), GetTeam(t) returns exactly the
\* users named in ms, each with the name and the active flag of its record.
C19_CreateTeamThenGetTeam ==
    [][\A t \in TeamNames :
        (ret'.op = "CreateTeam" /\ ret'.err = "nil" /\ t \notin teams)
        => \A ms \in MemberLists :
             (/\ CreateTeam_members(t, ms)
              /\ UNCHANGED <<prs, pr_reviewers, assignment_events, pc, loc>>)
             => /\ GetTeam(t)'.err = "nil"
                /\ GetTeam(t)'.members =
                     {[ID |-> ms[i].UserID, Name |-> ms[i].Username, IsActive |-> ms[i].IsActive] :
                         i \in 1..Len(ms)}]_vars

\* a CreateTeam has succeeded and a user of both teams, who therefore existed
\* before the second one, is inactive and carries the second name
C19_Witness ==
    /\ ret.op = "CreateTeam" /\ ret.err = "nil"
    /\ \E u \in DOMAIN users :
         Cardinality(TeamsOf(u)) = 2 /\ ~users[u].is_active /\ users[u].name = "n2"

\* C20: after a successful BulkDeactivateTeam(t, b) every member of t is
\* inactive, in the table and in what GetTeam(t) returns, and no user outside
\* t has a changed row.
C20_BulkDeactivate ==
    [][\A t \in TeamNames, b \in BOOLEAN :
        (/\ ret'.op = "BulkDeactivateTeam" /\ ret'.err = "nil"
         /\ BulkDeactivateTeam(t, b))
        => /\ \A m \in GetTeam(t)'.members : ~m.IsActive
           /\ \A u \in DOMAIN users : <<t, u>> \in team_members => ~users'[u].is_active
           /\ DOMAIN users' = DOMAIN users
           /\ \A u \in DOMAIN users : <<t, u>> \notin team_members => users'[u] = users[u]]_vars

\* a BulkDeactivateTeam has succeeded on a team with members while a user
\* outside that team is active
C20_Witness ==
    /\ ret.op = "BulkDeactivateTeam" /\ ret.err = "nil"
    /\ \E t \in teams :
         /\ \E u \in DOMAIN users : <<t, u>> \in team_members
         /\ \A u \in DOMAIN users : <<t, u>> \in team_members => ~users[u].is_active
         /\ \E v \in DOMAIN users : <<t, v>> \notin team_members /\ users[v].is_active

\* C21: SetUserActive(u, FALSE) and BulkDeactivateTeam change nothing but
\* active flags: reviewer bindings (also those of the users deactivated), PR
\* rows, teams, memberships, assignment events, the set of users and their
\* names stay as they are.
C21_DeactivationFrame ==
    [][LET frame == /\ pr_reviewers' = pr_reviewers
                    /\ prs' = prs
                    /\ teams' = teams
                    /\ team_members' = team_members
                    /\ assignment_events' = assignment_events
                    /\ DOMAIN users' = DOMAIN users
                    /\ \A v \in DOMAIN users : users'[v].name = users[v].name
       IN /\ \A u \in UserIds :
               (ret'.op = "SetUserActive" /\ SetUserActive(u, FALSE)) => frame
          /\ \A t \in TeamNames, b \in BOOLEAN :
               (ret'.op = "BulkDeactivateTeam" /\ BulkDeactivateTeam(t, b)) => frame]_vars

\* a SetUserActive has deactivated a user who is, and stays, a bound reviewer
\* with an assignment event
C21_Witness ==
    /\ ret.op = "SetUserActive" /\ ret.err = "nil" /\ ~ret.user.IsActive
    /\ \E p \in DOMAIN prs : \E u \in Bound(p) :
         ~users[u].is_active /\ EventsOf(u) >= 1

\* C22: a BulkDeactivateTeam(t, b) step is also a BulkDeactivateTeam(t, ~b)
\* step, that is, both flags give the same result and the same tables from
\* the same state; and no reviewer binding changes.
C22_ReassignFlagIgnored ==
    [][\A t \in TeamNames, b \in BOOLEAN :
        (ret'.op = "BulkDeactivateTeam" /\ BulkDeactivateTeam(t, b))
        => /\ BulkDeactivateTeam(t, ~b)
           /\ pr_reviewers' = pr_reviewers]_vars

\* a BulkDeactivateTeam has succeeded and an OPEN PR keeps a reviewer who is
\* a member of a team whose members are all inactive
C22_Witness ==
    /\ ret.op = "BulkDeactivateTeam" /\ ret.err = "nil"
    /\ \E p \in DOMAIN prs : \E u \in Bound(p) : \E t \in TeamsOf(u) :
         /\ prs[p].status = "OPEN"
         /\ \A v \in DOMAIN users : <<t, v>> \in team_members => ~users[v].is_active

\* C23: the count GetStats gives for a user (0 for a user who is no key of the
\* map) starts at 0 and goes up by exactly one with every step that assigns
\* the user, as a reviewer selected by a successful CreatePR or as the
\* replacement of a successful ReassignReviewer, on whatever PR, and changes
\* with no other step. (GetStats reads assignment_events only: a step that
\* leaves that table as it is leaves the counts, and must assign nobody.)
C23_StatsCountEvents ==
    [][LET stats    == GetStats
           newStats == GetStats'
           named(u) == \/ /\ ret'.op = "CreatePR" /\ ret'.err = "nil"
                          /\ u \in Range(ret'.pr.Reviewers)
                       \/ /\ ret'.op = "ReassignReviewer" /\ ret'.err = "nil"
                          /\ ret'.newID = u
       IN IF assignment_events' = assignment_events
          THEN \A u \in UserIds : ~named(u)
          ELSE \A u \in UserIds :
                 LET before == IF u \in DOMAIN stats THEN stats[u] ELSE 0
                     after  == IF u \in DOMAIN newStats THEN newStats[u] ELSE 0
                 IN after = before + (IF named(u) THEN 1 ELSE 0)]_vars

\* after a ReassignReviewer, a user has been assigned on both PRs and GetStats
\* gives 2 or more for that user
C23_Witness ==
    /\ ret.op = "ReassignReviewer" /\ ret.err = "nil"
    /\ \E u \in DOMAIN GetStats :
         /\ GetStats[u] >= 2
         /\ \A p \in PRIdsTwo : assignment_events[<<p, u>>] >= 1

\* C24: no step takes an assignment event away: for every PR and user the
\* number of assignment_events rows never goes down, and so the count GetStats
\* gives for a user never goes down. (GetStats reads assignment_events only, so
\* its counts are compared for the steps that change that table.)
C24_EventsOnlyGrow ==
    [][/\ DOMAIN assignment_events' = DOMAIN assignment_events
       /\ \A k \in DOMAIN assignment_events : assignment_events'[k] >= assignment_events[k]
       /\ assignment_events' # assignment_events =>
            \A u \in UserIds :
               /\ GetAssignmentStats(u)' >= GetAssignmentStats(u)
               /\ u \in DOMAIN GetStats => u \in DOMAIN GetStats'
                                           /\ GetStats'[u] >= GetStats[u]]_vars

\* a ReassignReviewer has taken a reviewer off a PR and GetStats still counts
\* the event of that reviewer, who is bound to no PR
C24_Witness ==
    /\ ret.op = "ReassignReviewer" /\ ret.err = "nil"
    /\ \E u \in DOMAIN GetStats :
         /\ \A p \in PRIds : u \notin Bound(p)
         /\ EventsOf(u) >= 1

\* C25: a ReassignReviewer(p, u) whose RemoveReviewer succeeds and whose
\* AddReviewer fails returns an error and leaves p without u and without a
\* new reviewer, one binding fewer than before: the removal is not undone, no
\* other binding changes and no assignment event is added.
C25_ReassignAddFails ==
    [][\A p \in PRIds, u \in UserIds :
        (/\ ret'.op = "ReassignReviewer"
         /\ ReassignReviewer_faulty(p, u, "AddReviewer"))
        => /\ ret'.err # "nil" /\ ret'.newID = ""
           /\ u \in Bound(p)
           /\ Bound(p)' = Bound(p) \ {u}
           /\ Cardinality(Bound(p)') = Cardinality(Bound(p)) - 1
           /\ pr_reviewers' = pr_reviewers \ {<<p, u>>}
           /\ assignment_events' = assignment_events]_vars

\* a ReassignReviewer has failed at AddReviewer on a PR created with two
\* reviewers, which now has one
C25_Witness ==
    /\ ret.op = "ReassignReviewer" /\ ret.at = 621
    /\ \E p \in DOMAIN prs :
         /\ prs[p].status = "OPEN"
         /\ Cardinality(Bound(p)) = 1
         /\ TotalEvents = 2

\* C26: when a call of the member loop of CreateTeam(t, ms) fails at record
\* k, the request returns the error and that step changes no table (nothing
\* is undone): team t is there, the users of records 1..k-1 have the name and
\* the flag of their record and are members of t, the users of record k and
\* of the records after it are no members of t. And a step of the loop at
\* record i writes nothing but the row of the user of record i and that
\* user's membership of t, so that the records after k are not processed.
C26_CreateTeamFailsAtMember ==
    [][LET t  == loc[1].teamName
           ms == loc[1].members
           k  == loc[1].i
       IN pc[1] \in {"t_CreateUser", "t_SetUserActive", "t_AddMember"} =>
            /\ teams' = teams
            /\ \A u \in DOMAIN users \ {ms[k].UserID} :
                 u \in DOMAIN users' /\ users'[u] = users[u]
            /\ DOMAIN users' \subseteq DOMAIN users \cup {ms[k].UserID}
            /\ team_members \subseteq team_members'
            /\ team_members' \subseteq team_members \cup {<<t, ms[k].UserID>>}
            /\ pc'[1] # "idle" => loc'[1].i \in {k, k + 1}
            /\ (pc'[1] = "idle" /\ ret'.at \in {410, 415, 420}) =>
                 /\ ret'.op = "CreateTeam" /\ ret'.err # "nil"
                 /\ db' = db
                 /\ t \in teams
                 /\ \A i \in 1..(k - 1) :
                      /\ ms[i].UserID \in DOMAIN users
                      /\ users[ms[i].UserID] =
                           [name |-> ms[i].Username, is_active |-> ms[i].IsActive]
                      /\ <<t, ms[i].UserID>> \in team_members
                 /\ \A i \in k..Len(ms) : <<t, ms[i].UserID>> \notin team_members]_vars

\* a CreateTeam has failed at SetUserActive of its second record: the team
\* has its first member, and the user of the second record exists and is in
\* no team
C26_Witness ==
    /\ ret.op = "CreateTeam" /\ ret.at = 415
    /\ \E t \in teams :
         /\ Cardinality({u \in DOMAIN users : <<t, u>> \in team_members}) = 1
         /\ \E v \in DOMAIN users : TeamsOf(v) = {}

\* C27: an operation that completes in part returns no error: CreateTeam
\* failing in its member loop at the second record or later, CreatePR of which
\* an AddReviewer fails, and ReassignReviewer whose AddReviewer fails after
\* its RemoveReviewer.
C27_PartialIsSuccess ==
    [][/\ \A t \in TeamNames, f \in CreateTeamFaults :
            (ret'.op = "CreateTeam" /\ f.k >= 2 /\ CreateTeam_faulty(t, f))
            => ret'.err = "nil"
       /\ \A p \in PRIds, n \in Titles, a \in UserIds, f \in CreatePRFaults :
            (ret'.op = "CreatePR" /\ f.call = "AddReviewer" /\ CreatePR_faulty(p, n, a, f))
            => ret'.err = "nil"
       /\ \A p \in PRIds, u \in UserIds :
            (ret'.op = "ReassignReviewer" /\ ReassignReviewer_faulty(p, u, "AddReviewer"))
            => ret'.err = "nil"]_vars

\* C28: MergePR(p) and ReassignReviewer(p, u) for a p that is no row of prs
\* fail with ErrNotFound and change no table.
C28_UnknownPR ==
    [][\A p \in PRIds :
        p \notin DOMAIN prs =>
          /\ (ret'.op = "MergePR" /\ MergePR(p))
               => ret'.err = "ErrNotFound" /\ db' = db
          /\ \A u \in UserIds :
               (ret'.op = "ReassignReviewer" /\ ReassignReviewer(p, u))
               => ret'.err = "ErrNotFound" /\ db' = db]_vars

\* a MergePR was refused for an unknown PR id while a team with members
\* exists and no PR does
C28_Witness ==
    /\ ret.op = "MergePR" /\ ret.err = "ErrNotFound"
    /\ prs = <<>> /\ pr_reviewers = {} /\ team_members # {}

\* C29: for a name that is no row of teams, GetTeam fails with ErrNotFound,
\* and BulkDeactivateTeam fails with ErrNotFound and changes no user's active
\* flag, nor anything else.
C29_UnknownTeam ==
    [][\A t \in TeamNames :
        t \notin teams =>
          /\ GetTeam(t).err = "ErrNotFound"
          /\ \A b \in BOOLEAN :
               (ret'.op = "BulkDeactivateTeam" /\ BulkDeactivateTeam(t, b))
               => /\ ret'.err = "ErrNotFound"
                  /\ \A u \in DOMAIN users :
                       u \in DOMAIN users' /\ users'[u].is_active = users[u].is_active
                  /\ db' = db]_vars

\* a BulkDeactivateTeam was refused for an unknown name while another team
\* has an active member
C29_Witness ==
    /\ ret.op = "BulkDeactivateTeam" /\ ret.err = "ErrNotFound"
    /\ \E t \in teams : \E u \in DOMAIN users :
         <<t, u>> \in team_members /\ users[u].is_active
    /\ teams # TeamNames

\* C30: SetUserActive(u, b) for a user u that exists returns no error and u
\* with flag b and the name u had; u's row then has flag b and the same name,
\* and no other row of any table changes. For a u that does not exist it
\* fails with ErrNotFound and changes no table.
C30_SetUserActive ==
    [][\A u \in UserIds, b \in BOOLEAN :
        (ret'.op = "SetUserActive" /\ SetUserActive(u, b))
        => IF u \in DOMAIN users
           THEN /\ ret'.err = "nil"
                /\ ret'.user = [Name |-> users[u].name, IsActive |-> b]
                /\ DOMAIN users' = DOMAIN users
                /\ users'[u] = [name |-> users[u].name, is_active |-> b]
                /\ \A v \in DOMAIN users \ {u} : users'[v] = users[v]
                /\ <<teams, team_members, prs, pr_reviewers, assignment_events>>'
                     = <<teams, team_members, prs, pr_reviewers, assignment_events>>
           ELSE /\ ret'.err = "ErrNotFound"
                /\ db' = db]_vars

\* a SetUserActive has activated a user named "n2" while another user is
\* inactive
C30_Witness ==
    /\ ret.op = "SetUserActive" /\ ret.err = "nil"
    /\ ret.user = [Name |-> "n2", IsActive |-> TRUE]
    /\ \E u \in DOMAIN users : users[u] = [name |-> "n2", is_active |-> TRUE]
    /\ \E v \in DOMAIN users : ~users[v].is_active

\* C31: while two ReassignReviewer requests about the same PR and the same old
\* reviewer run interleaved per repository call, and after both returned, the
\* PR has at most two reviewer bindings.
C31_PairAtMostTwo ==
    \A p \in DOMAIN prs : Cardinality(Bound(p)) <= 2

\* C32: a successful ReassignReviewer leaves the PR with as many reviewer
\* bindings as it had before the call, and the replacement it returns was not
\* a reviewer of that PR before the call.
C32_ReassignKeepsCount ==
    [][\A p \in PRIdsTwo, u \in UserIds :
        (/\ ret'.op = "ReassignReviewer" /\ ret'.err = "nil"
         /\ ReassignReviewer(p, u))
        => /\ ret'.newID \notin Bound(p)
           /\ Cardinality(Bound(p)') = Cardinality(Bound(p))]_vars

\* C33: with no store call failing, a step adds an assignment event (p, u)
\* exactly when it creates a reviewer binding (p, u) that did not exist, and
\* it adds one event per such binding.
C33_EventIffNewBinding ==
    [][\A p \in PRIdsTwo, u \in UserIds :
        /\ assignment_events'[<<p, u>>] # assignment_events[<<p, u>>]
             <=> (<<p, u>> \notin pr_reviewers /\ <<p, u>> \in pr_reviewers')
        /\ assignment_events'[<<p, u>>] \in
             {assignment_events[<<p, u>>], assignment_events[<<p, u>>] + 1}]_vars

\* C34: GetTeam, MergePR, ReassignReviewer, CreatePR and SetUserActive, also
\* with a failing store call, return ErrNotFound only when the team, PR or
\* user they refer to is absent, and ReassignReviewer returns ErrNoCandidate
\* only when a team of the old reviewer has no other active member.
C34_NotFoundOnlyIfAbsent ==
    [][/\ \A t \in TeamNames, f \in GetTeamFaults :
            /\ GetTeam(t).err = "ErrNotFound" => t \notin teams
            /\ GetTeam_faulty(t, f).err = "ErrNotFound" => t \notin teams
       /\ \A p \in PRIds :
            (/\ ret'.op = "MergePR" /\ ret'.err = "ErrNotFound"
             /\ (MergePR(p) \/ \E f \in MergeFaults : MergePR_faulty(p, f)))
            => p \notin DOMAIN prs
       /\ \A p \in PRIds, u \in UserIds :
            (/\ ret'.op = "ReassignReviewer"
             /\ (ReassignReviewer(p, u)
                 \/ \E f \in ReassignFaults : ReassignReviewer_faulty(p, u, f)))
            => /\ ret'.err = "ErrNotFound" => p \notin DOMAIN prs
               /\ ret'.err = "ErrNoCandidate" => \E t \in TeamsOf(u) : Eligible(t, u) = {}
       /\ \A p \in PRIds, n \in Titles, a \in UserIds :
            (/\ ret'.op = "CreatePR" /\ ret'.err = "ErrNotFound"
             /\ (CreatePR(p, n, a) \/ \E f \in CreatePRFaults : CreatePR_faulty(p, n, a, f)))
            => a \notin DOMAIN users
       /\ \A u \in UserIds, b \in BOOLEAN :
            (/\ ret'.op = "SetUserActive" /\ ret'.err = "ErrNotFound"
             /\ (SetUserActive(u, b)
                 \/ \E f \in SetUserActiveFaults : SetUserActive_faulty(u, b, f)))
            => u \notin DOMAIN users]_vars

\* the members of team t, and whether none of them is active
MembersOf(t) == {u \in DOMAIN users : <<t, u>> \in team_members}
Deactivated(t) == \A u \in MembersOf(t) : ~users[u].is_active

\* C35: a successful BulkDeactivateTeam(t) leaves no member of t active; that
\* ends only when SetUserActive(u, true) or a CreateTeam member record makes a
\* member of t active; and as long as it lasts a successful CreatePR by an
\* author whose team is t binds and returns no reviewer, and ReassignReviewer
\* of a bound reviewer whose team is t fails with ErrNoCandidate.
C35_DeactivatedTeamAssignsNobody ==
    [][\A t \in TeamNames :
        /\ \A b \in BOOLEAN :
             (/\ ret'.op = "BulkDeactivateTeam" /\ ret'.err = "nil"
              /\ BulkDeactivateTeam(t, b))
             => Deactivated(t)'
        /\ (t \in teams /\ Deactivated(t) /\ ~Deactivated(t)')
             => \E u \in MembersOf(t) :
                  /\ users'[u].is_active
                  /\ \/ ret'.op = "SetUserActive" /\ SetUserActive(u, TRUE)
                     \/ ret'.op = "CreateTeam" /\ \E t2 \in TeamNames : CreateTeam(t2)
        /\ (t \in teams /\ Deactivated(t))
             => /\ \A p \in PRIds, n \in Titles, a \in UserIds :
                     (/\ ret'.op = "CreatePR" /\ ret'.err = "nil"
                      /\ TeamsOf(a) = {t}
                      /\ CreatePR(p, n, a))
                     => ret'.pr.Reviewers = <<>> /\ Bound(p)' = {}
                /\ \A p \in PRIds, u \in UserIds :
                     (/\ ret'.op = "ReassignReviewer"
                      /\ p \in DOMAIN prs /\ prs[p].status = "OPEN"
                      /\ u \in Bound(p) /\ TeamsOf(u) = {t}
                      /\ ReassignReviewer(p, u))
                     => /\ ret'.err = "ErrNoCandidate"
                        /\ Bound(p)' = Bound(p)]_vars

\* a ReassignReviewer has found no candidate for a reviewer whose only team
\* has more than one member, none of them active
C35_Witness ==
    /\ ret.op = "ReassignReviewer" /\ ret.err = "ErrNoCandidate"
    /\ \E p \in DOMAIN prs, t \in teams :
         /\ prs[p].status = "OPEN"
         /\ Deactivated(t) /\ Cardinality(MembersOf(t)) > 1
         /\ \E u \in Bound(p) : TeamsOf(u) = {t}

\* the positions of a CreatePR request after its CreatePRWithID succeeded
AfterInsert == {"c_assignReviewers", "c_AddReviewer", "c_AddAssignmentEvent"}

\* C36: of two CreatePR requests with the same prID interleaved per repository
\* call at most one gets past the insert of the PR row and only that one can
\* return success; the PR row is inserted once and stays as inserted; a
\* request that does not get past the insert writes nothing; and when the
\* successful request returns, the bindings and assignment events of the PR
\* are those of the reviewers it returns, one event each.
C36_OneCreatePRWins ==
    [][/\ Cardinality({self \in Procs : pc'[self] \in AfterInsert}) <= 1
       /\ \A p \in DOMAIN prs : p \in DOMAIN prs' /\ prs'[p] = prs[p]
       /\ \A self \in Procs :
            pc'[self] # pc[self] =>
              /\ prs' # prs =>
                   /\ pc[self] = "c_CreatePRWithID" /\ pc'[self] \in AfterInsert
                   /\ DOMAIN prs' = DOMAIN prs \cup {loc[self].prID}
              /\ (pc[self] = "c_CreatePRWithID" /\ pc'[self] \in AfterInsert) => prs' # prs
              /\ pc[self] \notin AfterInsert =>
                   pr_reviewers' = pr_reviewers /\ assignment_events' = assignment_events
              /\ (pc'[self] = "idle" /\ ret'.err = "nil") =>
                   /\ pc[self] \in AfterInsert
                   /\ \A other \in Procs \ {self} : pc[other] \notin AfterInsert
                   /\ DOMAIN prs' = {ret'.pr.ID}
                   /\ {u \in UserIds : <<ret'.pr.ID, u>> \in pr_reviewers'}
                        = Range(ret'.pr.Reviewers)
                   /\ \A u \in UserIds :
                        assignment_events'[<<ret'.pr.ID, u>>] =
                          IF u \in Range(ret'.pr.Reviewers) THEN 1 ELSE 0]_vars

\* one CreatePR has returned success with two reviewers bound while the other
\* request with the same prID, started before the PR row existed, is still
\* running
C36_Witness ==
    /\ ret.op = "CreatePR" /\ ret.err = "nil"
    /\ Cardinality(Bound(ret.pr.ID)) = 2
    /\ \E self \in Procs :
         pc[self] \in {"c_GetUserByID", "c_GetUserTeam", "c_CreatePRWithID"}
         /\ loc[self].prID = ret.pr.ID

====
